---- MODULE Spec2Model ----
(***************************************************************************)
(* A model of the Snail CoT dataset generator (src/snail/snail.py) and of  *)
(* its driver (src/example/snail_example.py).                              *)
(*                                                                         *)
(* Python strings are sequences of one-character strings.  A value that    *)
(* may be None is a record [t, v]: t is "None", "str" or "int".            *)
(***************************************************************************)
EXTENDS Integers, Sequences, FiniteSets, TLC

VARIABLES
    pc,                  \* position of the driver main()
    err,                 \* the exception that left main() and the call that raised it
    args,                \* the arguments given to Snail(...)
    snail,               \* the constructed object, or NoObject
    result_of_serching,  \* main's variable of that name
    instruction,         \* main's variable / the datas of get_cot_result
    delay,               \* the delay given to get_cot_result
    idx,                 \* get_cot_result: number of items the loop has taken
    results,             \* get_cot_result: the local list results
    output,              \* main's variable of that name
    ds,                  \* main's variable: the dict, as a sequence of <<key, value>>
    json_path,           \* saved_json_file / the json_path of push_to_hf
    repo_id,             \* the repo_id of push_to_hf
    written,             \* one record per transform_alpaca_format call, in call order
    files,               \* the working directory: file name -> [records, by]
    log                  \* the calls made to the backends and to time.sleep, in order

vars == <<pc, err, args, snail, result_of_serching, instruction, delay, idx,
          results, output, ds, json_path, repo_id, written, files, log>>

-----------------------------------------------------------------------------
(* Python values *)

PyNone == [t |-> "None", v |-> <<>>]

PyStr(s) == [t |-> "str", v |-> s]

PyInt(n) == [t |-> "int", v |-> n]

\* `x is None or x == ""`
MissingOrEmpty(x) == x.t = "None" \/ (x.t = "str" /\ x.v = <<>>)

\* `not x` for an optional string or list
Falsy(x) == x.t = "None" \/ x.v = <<>>

RECURSIVE SeqsUpTo(_, _)
\* all sequences over S of length at most n
SeqsUpTo(S, n) ==
    IF n = 0 THEN {<<>>}
    ELSE LET shorter == SeqsUpTo(S, n - 1)
         IN  shorter \cup {Append(s, x) : s \in {q \in shorter : Len(q) = n - 1}, x \in S}

Range(s) == {s[i] : i \in 1..Len(s)}

-----------------------------------------------------------------------------
(* Snail.__init__ *)

NoError == [exc |-> "none", at |-> "none"]

DefaultMaxOutputTokens == 2048

NoObject == [made |-> FALSE]

OptStrings == {PyNone, PyStr(<<>>), PyStr(<<"k">>)}

OptTokens == {PyNone, PyInt(-1), PyInt(0), PyInt(1), PyInt(DefaultMaxOutputTokens)}

ArgSets == [google_api_key : OptStrings, model_id : OptStrings, role : OptStrings,
            user_query : OptStrings, max_output_tokens : OptTokens]

\* a faulty variant: the token budget check accepts zero
SnailInitZeroBudget(a) ==
    IF MissingOrEmpty(a.google_api_key) THEN [exc |-> "ValueError", client |-> FALSE]
    ELSE IF MissingOrEmpty(a.model_id) THEN [exc |-> "ValueError", client |-> TRUE]
    ELSE IF MissingOrEmpty(a.role) THEN [exc |-> "ValueError", client |-> TRUE]
    ELSE IF MissingOrEmpty(a.user_query) THEN [exc |-> "ValueError", client |-> TRUE]
    ELSE IF a.max_output_tokens.t = "None" \/ a.max_output_tokens.v < 0
         THEN [exc |-> "ValueError", client |-> TRUE]
    ELSE [exc |-> "none", client |-> TRUE]

\* The checks of __init__, in the code's order.  client says whether
\* genai.Client(...) was built before the constructor ended.
SnailInit(a) ==
    IF MissingOrEmpty(a.google_api_key) THEN [exc |-> "ValueError", client |-> FALSE]
    ELSE IF MissingOrEmpty(a.model_id) THEN [exc |-> "ValueError", client |-> TRUE]
    ELSE IF MissingOrEmpty(a.role) THEN [exc |-> "ValueError", client |-> TRUE]
    ELSE IF MissingOrEmpty(a.user_query) THEN [exc |-> "ValueError", client |-> TRUE]
    ELSE IF a.max_output_tokens.t = "None" \/ a.max_output_tokens.v <= 0
         THEN [exc |-> "ValueError", client |-> TRUE]
    ELSE [exc |-> "none", client |-> TRUE]

\* main, line 14: snail = Snail(...)
Construct ==
    /\ pc = "construct"
    /\ LET r == SnailInit(args)
       IN  IF r.exc = "none"
           THEN /\ snail' = [made |-> TRUE, cfg |-> args]
                /\ pc' = "search"
                /\ UNCHANGED err
           ELSE /\ snail' = NoObject
                /\ err' = [exc |-> r.exc, at |-> "Snail"]
                /\ pc' = "crashed"
    /\ UNCHANGED <<args, result_of_serching, instruction, delay, idx, results, output,
                   ds, json_path, repo_id, written, files, log>>

-----------------------------------------------------------------------------
(* The log of calls that leave the process *)

Raised == [t |-> "raise", v |-> <<>>]

Event(op, arg, ret) == [op |-> op, arg |-> arg, ret |-> ret]

-----------------------------------------------------------------------------
\* Snail.extract_listings: the pattern is newline, \d+, \., \s+, then a group
\* of any characters but a newline; each group is right-stripped

NL == "\n"

Digits == {"1"}

\* the characters of the alphabet that \s matches
Whitespace == {" ", NL}

Alphabet == {NL, "1", ".", " ", "a"}

\* what `.` matches: anything but a newline
Dot == Alphabet \ {NL}

MaxTextLen == 6

Texts == SeqsUpTo(Alphabet, MaxTextLen)

RECURSIVE SkipWhile(_, _, _)
\* the first position at or after i whose character is not in C (greedy run)
SkipWhile(s, i, C) ==
    IF i <= Len(s) /\ s[i] \in C THEN SkipWhile(s, i + 1, C) ELSE i

\* One attempt of the pattern at position i.  The three runs are greedy; no
\* backtracking can change the outcome, since what follows each run cannot
\* match a character of the run (and the group may match nothing).
MatchAt(s, i) ==
    LET d  == SkipWhile(s, i + 1, Digits)      \* after \n\d+
        w  == SkipWhile(s, d + 1, Whitespace)  \* after \.\s+
        e  == SkipWhile(s, w, Dot)             \* after the group
        ok == /\ i <= Len(s) /\ s[i] = NL
              /\ d > i + 1
              /\ d <= Len(s) /\ s[d] = "."
              /\ w > d + 1
    IN  [ok |-> ok, group |-> IF ok THEN SubSeq(s, w, e - 1) ELSE <<>>, end |-> e]

RECURSIVE FindAll(_, _)
\* re.findall: the groups of the non-overlapping matches, scanning from i
FindAll(s, i) ==
    IF i > Len(s) THEN <<>>
    ELSE LET m == MatchAt(s, i)
         IN  IF m.ok THEN <<m.group>> \o FindAll(s, m.end)
             ELSE FindAll(s, i + 1)

RECURSIVE RStrip(_)
\* str.rstrip()
RStrip(q) ==
    IF q # <<>> /\ q[Len(q)] \in Whitespace THEN RStrip(SubSeq(q, 1, Len(q) - 1)) ELSE q

\* re.findall raises TypeError when listings is None
ExtractListings(listings) ==
    IF listings.t = "None" THEN [exc |-> "TypeError", val |-> <<>>]
    ELSE LET found == FindAll(listings.v, 1)
         IN  [exc |-> "none", val |-> [k \in 1..Len(found) |-> RStrip(found[k])]]

\* main, line 20: instruction = snail.extract_listings(result_of_serching)
Extract ==
    /\ pc = "extract"
    /\ LET r == ExtractListings(result_of_serching)
       IN  IF r.exc = "none"
           THEN /\ instruction' = r.val
                /\ pc' = "cot"
                /\ UNCHANGED err
           ELSE /\ err' = [exc |-> r.exc, at |-> "extract_listings"]
                /\ pc' = "crashed"
                /\ UNCHANGED instruction
    /\ UNCHANGED <<args, snail, result_of_serching, delay, idx, results, output,
                   ds, json_path, repo_id, written, files, log>>

-----------------------------------------------------------------------------
(* Snail.searching *)

MaxItems == 3

Items == {<<"a">>, <<"b">>}

RECURSIVE Render(_)
\* a numbered list, every item on a line of its own behind "\n1. "
Render(l) ==
    IF l = <<>> THEN <<>> ELSE <<NL, "1", ".", " ">> \o Head(l) \o Render(Tail(l))

\* the texts the search backend answers with
SearchTexts == {Render(l) : l \in SeqsUpTo(Items, MaxItems)}

\* What searching() returns when generate_content answers ret: the text, or
\* None (the except clause prints and falls off the end of the function).
SearchingResult(ret) == IF ret.t = "str" THEN ret ELSE PyNone

\* main, line 16: result_of_serching = snail.searching()
Search ==
    /\ pc = "search"
    /\ \E ret \in {Raised} \cup {PyStr(t) : t \in SearchTexts} :
          /\ log' = Append(log, Event("generate_content(search)", snail.cfg.user_query.v, ret))
          /\ result_of_serching' = SearchingResult(ret)
    /\ pc' = "extract"
    /\ UNCHANGED <<err, args, snail, instruction, delay, idx, results, output,
                   ds, json_path, repo_id, written, files>>

-----------------------------------------------------------------------------
(* Snail.get_cot_result *)

\* the texts the CoT backend answers with
Replies == {<<"x">>, <<"y">>}

\* what generate_content does for one item: raises, returns no response
\* (a falsy one), or returns a response with a text
CotOutcomes == {Raised, PyNone} \cup {PyStr(t) : t \in Replies}

\* a faulty variant: a failed item leaves a placeholder in results
CotAppendPlaceholder(res, ret) ==
    IF ret.t = "str" THEN Append(res, ret.v) ELSE Append(res, <<>>)

\* lines 189-190: `if response: results.append(response.text)`
CotAppend(res, ret) ==
    IF ret.t = "str" THEN Append(res, ret.v) ELSE res

\* The calls one iteration makes after generate_content returned or raised.
\* The print of line 193 reads response.text, which raises AttributeError on a
\* None response; time.sleep is the last statement of the try block, so any
\* exception before it skips the pause.
CotPause(ret, d) ==
    IF ret.t = "str" THEN <<Event("sleep", d, PyNone)>> ELSE <<>>

\* one iteration of the loop of lines 179-197
CotItem ==
    /\ pc = "cot"
    /\ idx < Len(instruction)
    /\ \E ret \in CotOutcomes :
          LET data == instruction[idx + 1]
          IN  /\ results' = CotAppend(results, ret)
              /\ log' = log \o <<Event("generate_content(cot)", data, ret)>> \o CotPause(ret, delay)
    /\ idx' = idx + 1
    /\ UNCHANGED <<pc, err, args, snail, result_of_serching, instruction, delay, output,
                   ds, json_path, repo_id, written, files>>

\* line 198 and main, line 31: output = snail.get_cot_result(instruction, delay=delay)
CotReturn ==
    /\ pc = "cot"
    /\ idx = Len(instruction)
    /\ output' = results
    /\ pc' = "pair"
    /\ UNCHANGED <<err, args, snail, result_of_serching, instruction, delay, idx, results,
                   ds, json_path, repo_id, written, files, log>>

-----------------------------------------------------------------------------
(* Snail.create_ds.  A dict is the sequence of its <<key, value>> entries in *)
(* insertion order, with no key twice.                                       *)

Min(a, b) == IF a <= b THEN a ELSE b

HasKey(d, k) == \E i \in 1..Len(d) : d[i][1] = k

\* a faulty variant: an existing key keeps its first value
DictSetKeepFirst(d, k, v) ==
    IF HasKey(d, k) THEN d ELSE Append(d, <<k, v>>)

\* d[k] = v: an existing key keeps its place and takes the new value
DictSet(d, k, v) ==
    IF HasKey(d, k)
    THEN [i \in 1..Len(d) |-> IF d[i][1] = k THEN <<k, v>> ELSE d[i]]
    ELSE Append(d, <<k, v>>)

RECURSIVE DictOfZip(_, _, _, _)
\* dict(zip(a, b)): the pairs from position i on, added to d; zip stops at
\* the end of the shorter list
DictOfZip(a, b, i, d) ==
    IF i > Min(Len(a), Len(b)) THEN d
    ELSE DictOfZip(a, b, i + 1, DictSet(d, a[i], b[i]))

\* a faulty variant: no length check before the zip
CreateDsUnchecked(ins, outs) ==
    [exc |-> "none", val |-> DictOfZip(ins, outs, 1, <<>>)]

\* lines 214-217
CreateDs(ins, outs) ==
    IF Len(ins) # Len(outs) THEN [exc |-> "ValueError", val |-> <<>>]
    ELSE [exc |-> "none", val |-> DictOfZip(ins, outs, 1, <<>>)]

\* main, line 33: ds = snail.create_ds(instruction, output)
Pair ==
    /\ pc = "pair"
    /\ LET r == CreateDs(instruction, output)
       IN  IF r.exc = "none"
           THEN /\ ds' = r.val
                /\ pc' = "transform"
                /\ UNCHANGED err
           ELSE /\ err' = [exc |-> r.exc, at |-> "create_ds"]
                /\ pc' = "crashed"
                /\ UNCHANGED ds
    /\ UNCHANGED <<args, snail, result_of_serching, instruction, delay, idx, results,
                   output, json_path, repo_id, written, files, log>>

-----------------------------------------------------------------------------
(* Snail.transform_alpaca_format *)

\* The values datetime.now() returns: the fields of a datetime object.
ClockReadings == [year : {2025}, month : {1, 11}, day : {1, 11}, hour : {9},
                  minute : {30}, second : {1, 2}, microsecond : {0, 500000}]

DigitChar(n) == <<"0", "1", "2", "3", "4", "5", "6", "7", "8", "9">>[n + 1]

\* a faulty variant: a field printed without its leading zero
Unpadded(n) == IF n < 10 THEN <<DigitChar(n)>> ELSE <<DigitChar(n \div 10), DigitChar(n % 10)>>

\* %m, %d, %H, %M, %S: two digits, zero-padded
Pad2(n) == <<DigitChar((n \div 10) % 10), DigitChar(n % 10)>>

\* %Y: four digits
Pad4(n) == Pad2(n \div 100) \o Pad2(n % 100)

\* strftime("%Y%m%d_%H%M%S"): the microsecond is not printed
Strftime(t) ==
    Pad4(t.year) \o Pad2(t.month) \o Pad2(t.day) \o <<"_">>
        \o Pad2(t.hour) \o Pad2(t.minute) \o Pad2(t.second)

\* line 243
OutputFile(t) == <<"transformed_qa_">> \o Strftime(t) \o <<".json">>

\* lines 232-239: one record per dict entry, in the dict's order
TransformedData(dataset) ==
    [i \in 1..Len(dataset) |->
        [instruction |-> dataset[i][1], input |-> <<>>, output |-> dataset[i][2]]]

NoFiles == [n \in {} |-> <<>>]

\* open(output_file, 'w') and json.dump: the file is created or replaced
WriteFile(fs, name, content) ==
    [n \in DOMAIN fs \cup {name} |-> IF n = name THEN content ELSE fs[n]]

\* main, line 37: saved_json_file, transformed_ds = snail.transform_alpaca_format(ds)
Transform ==
    /\ pc = "transform"
    /\ \E t \in ClockReadings :
          LET name == OutputFile(t)
              by   == Len(written) + 1
          IN  /\ files' = WriteFile(files, name, [records |-> TransformedData(ds), by |-> by])
              /\ written' = Append(written, [t |-> t, name |-> name])
              /\ json_path' = PyStr(name)
    /\ pc' = "push"
    /\ UNCHANGED <<err, args, snail, result_of_serching, instruction, delay, idx, results,
                   output, ds, repo_id, log>>

MaxRuns == 2

Datasets == {<<>>, <<<< <<"a">>, <<"x">> >>>>}

\* the script is started again (lines 44-45), or a caller transforms another
\* dataset: the working directory keeps the files written so far
InvokeAgain ==
    /\ pc = "push"
    /\ Len(written) < MaxRuns
    /\ ds' \in Datasets
    /\ pc' = "transform"
    /\ UNCHANGED <<err, args, snail, result_of_serching, instruction, delay, idx, results,
                   output, json_path, repo_id, written, files, log>>

-----------------------------------------------------------------------------
(* Snail.push_to_hf *)

RECURSIVE Split(_, _)
\* str.split(sep): the pieces between the separators, one more than separators
Split(s, sep) ==
    LET i == SkipWhile(s, 1, Range(s) \ {sep})
    IN  IF i > Len(s) THEN <<s>>
        ELSE <<SubSeq(s, 1, i - 1)>> \o Split(SubSeq(s, i + 1, Len(s)), sep)

\* a faulty variant: the repo_id check is missing
PushArgsOnlyPath(path, repo) ==
    IF Falsy(path) THEN "ValueError" ELSE "none"

\* lines 263-266
PushArgs(path, repo) ==
    IF Falsy(path) THEN "ValueError"
    ELSE IF Falsy(repo) THEN "ValueError"
    ELSE "none"

Ret(ok) == IF ok THEN PyNone ELSE Raised

\* a faulty variant: every step in a try block of its own
PushStepsIndependent(path, repo, created, carded, loaded, uploaded) ==
    <<Event("create_repo", repo, Ret(created))>>
    \o (IF Len(Split(repo, "/")) # 2 THEN <<>>
        ELSE <<Event("card.push_to_hub", repo, Ret(carded))>>)
    \o (IF ~loaded THEN <<>>
        ELSE <<Event("dataset.push_to_hub", repo, Ret(uploaded))>>)

\* Lines 268-283: the remote calls of one try block, in order; the first
\* exception (of a remote call, of the unpacking of repo_id.split('/'), or of
\* load_dataset reading the file) ends the block.
PushSteps(path, repo, created, carded, loaded, uploaded) ==
    <<Event("create_repo", repo, Ret(created))>>
    \o (IF ~created \/ Len(Split(repo, "/")) # 2 THEN <<>>
        ELSE <<Event("card.push_to_hub", repo, Ret(carded))>>
             \o (IF ~carded \/ ~loaded THEN <<>>
                 ELSE <<Event("dataset.push_to_hub", repo, Ret(uploaded))>>))

\* main, line 41: snail.push_to_hf(json_path=saved_json_file, repo_id=repo_id)
Push ==
    /\ pc = "push"
    /\ IF PushArgs(json_path, repo_id) # "none"
       THEN /\ err' = [exc |-> PushArgs(json_path, repo_id), at |-> "push_to_hf"]
            /\ pc' = "crashed"
            /\ UNCHANGED log
       ELSE /\ \E created, carded, loaded, uploaded \in BOOLEAN :
                  log' = log \o PushSteps(json_path.v, repo_id.v, created, carded, loaded, uploaded)
            /\ pc' = "done"
            /\ UNCHANGED err
    /\ UNCHANGED <<args, snail, result_of_serching, instruction, delay, idx, results,
                   output, ds, json_path, repo_id, written, files>>

-----------------------------------------------------------------------------
(* Initial states and specifications *)

ExampleDelay == 5

ExampleRepoIds == {PyStr(<<>>), PyStr(<<"o", "/", "n">>)}

\* the arguments of main, line 14: the key is typed in, the rest are literals
ExampleArgs(key) ==
    [google_api_key |-> key, model_id |-> PyStr(<<"m">>), role |-> PyStr(<<"r">>),
     user_query |-> PyStr(<<"q">>), max_output_tokens |-> PyInt(DefaultMaxOutputTokens)]

Constructed == [made |-> TRUE, cfg |-> ExampleArgs(PyStr(<<"k">>))]

\* the state before main has run a statement
Fresh ==
    [pc |-> "construct", args |-> ExampleArgs(PyStr(<<"k">>)), snail |-> NoObject,
     result_of_serching |-> PyNone, instruction |-> <<>>, delay |-> ExampleDelay,
     output |-> <<>>, ds |-> <<>>, json_path |-> PyNone, repo_id |-> PyStr(<<>>)]

StateIs(r) ==
    /\ pc = r.pc
    /\ err = NoError
    /\ args = r.args
    /\ snail = r.snail
    /\ result_of_serching = r.result_of_serching
    /\ instruction = r.instruction
    /\ delay = r.delay
    /\ idx = 0
    /\ results = <<>>
    /\ output = r.output
    /\ ds = r.ds
    /\ json_path = r.json_path
    /\ repo_id = r.repo_id
    /\ written = <<>>
    /\ files = NoFiles
    /\ log = <<>>

\* main() of src/example/snail_example.py from its first statement
Init ==
    \E key \in {PyStr(<<>>), PyStr(<<"k">>)}, repo \in ExampleRepoIds :
        StateIs([Fresh EXCEPT !.args = ExampleArgs(key), !.repo_id = repo])

Next ==
    \/ Construct
    \/ Search
    \/ Extract
    \/ CotItem
    \/ CotReturn
    \/ Pair
    \/ Transform
    \/ Push

Spec == Init /\ [][Next]_vars

\* Snail(...) on any arguments
InitConstruct == \E a \in ArgSets : StateIs([Fresh EXCEPT !.args = a])

NextConstruct == Construct

SpecConstruct == InitConstruct /\ [][NextConstruct]_vars

\* extract_listings on any text
InitExtract ==
    \E t \in Texts :
        StateIs([Fresh EXCEPT !.pc = "extract", !.snail = Constructed,
                              !.result_of_serching = PyStr(t)])

NextExtract == Extract

SpecExtract == InitExtract /\ [][NextExtract]_vars

Delays == {2, ExampleDelay}

\* get_cot_result on any list of items
InitCot ==
    \E l \in SeqsUpTo(Items, MaxItems), d \in Delays :
        StateIs([Fresh EXCEPT !.pc = "cot", !.snail = Constructed,
                              !.instruction = l, !.delay = d])

NextCot == CotItem \/ CotReturn

SpecCot == InitCot /\ [][NextCot]_vars

\* create_ds on any two lists
InitPair ==
    \E l \in SeqsUpTo(Items, MaxItems), o \in SeqsUpTo(Replies, MaxItems) :
        StateIs([Fresh EXCEPT !.pc = "pair", !.snail = Constructed,
                              !.instruction = l, !.output = o])

NextPair == Pair

SpecPair == InitPair /\ [][NextPair]_vars

\* transform_alpaca_format, called again and again in one working directory
InitTransform ==
    \E d \in Datasets :
        StateIs([Fresh EXCEPT !.pc = "transform", !.snail = Constructed, !.ds = d])

NextTransform == Transform \/ InvokeAgain

SpecTransform == InitTransform /\ [][NextTransform]_vars

MaxRepoLen == 3

RepoIds == {PyNone} \cup {PyStr(r) : r \in SeqsUpTo({"o", "/"}, MaxRepoLen)}

JsonPaths == {PyNone, PyStr(<<>>), PyStr(<<"f">>)}

\* push_to_hf on any arguments
InitPush ==
    \E f \in JsonPaths, r \in RepoIds :
        StateIs([Fresh EXCEPT !.pc = "push", !.snail = Constructed,
                              !.json_path = f, !.repo_id = r])

NextPush == Push

SpecPush == InitPush /\ [][NextPush]_vars

-----------------------------------------------------------------------------
(* Properties *)

EmptyOrAbsent(x) == x.t = "None" \/ (x.t = "str" /\ Len(x.v) = 0)

IsCotCall(e) == e.op = "generate_content(cot)"

CotCalls == SelectSeq(log, IsCotCall)

Succeeded(e) == e.ret.t = "str"

CotFailed == \E p \in 1..Len(log) : IsCotCall(log[p]) /\ ~Succeeded(log[p])

HubOps == {"create_repo", "card.push_to_hub", "dataset.push_to_hub"}

NoHubOp == \A p \in 1..Len(log) : log[p].op \notin HubOps

\* C1: in get_cot_result every backend call, succeeded or failed, is followed
\* by the pause of delay seconds before anything else happens, and when the
\* batch returns the number of pauses equals the number of items.
C1_PauseAfterEveryItem ==
    /\ \A p \in 1..Len(log) :
          IsCotCall(log[p]) =>
              /\ p < Len(log)
              /\ log[p + 1].op = "sleep"
              /\ log[p + 1].arg = delay
    /\ pc = "pair" =>
          Cardinality({p \in 1..Len(log) : log[p].op = "sleep"}) = Len(instruction)

\* C2: get_cot_result calls the backend exactly once per item, in input
\* order, and its result is exactly the texts of the calls that succeeded, in
\* order, with nothing in the place of a failed item; so the result is as long
\* as the number of succeeded items and no longer than the input.
C2_ResultsAreSucceededTexts ==
    LET ok == SelectSeq(CotCalls, Succeeded)
    IN  /\ Len(CotCalls) = idx
        /\ \A i \in 1..idx : CotCalls[i].arg = instruction[i]
        /\ results = [i \in 1..Len(ok) |-> ok[i].ret.v]
        /\ pc = "pair" =>
              /\ idx = Len(instruction)
              /\ output = results
              /\ Len(output) = Len(ok)
              /\ Len(output) <= Len(instruction)

\* a batch of three whose second call failed has returned two texts
C2_Witness ==
    /\ pc = "pair"
    /\ Len(instruction) = 3
    /\ Len(CotCalls) = 3
    /\ CotCalls[2].ret = Raised
    /\ output = <<CotCalls[1].ret.v, CotCalls[3].ret.v>>

LastIndex(s, k) == CHOOSE i \in 1..Len(s) : s[i] = k /\ \A j \in (i + 1)..Len(s) : s[j] # k

\* C3: create_ds on lists of unequal length raises the length error and gives
\* no mapping; on lists of equal length N it returns a mapping of at most N
\* entries, of exactly N iff the instructions are distinct, in which every
\* instruction maps to the output at the place of its last occurrence.
C3_CreateDs ==
    pc # "pair" =>
        IF Len(instruction) # Len(output)
        THEN /\ pc = "crashed"
             /\ err = [exc |-> "ValueError", at |-> "create_ds"]
             /\ ds = <<>>
        ELSE /\ pc = "transform"
             /\ err = NoError
             /\ Len(ds) <= Len(instruction)
             /\ Len(ds) = Len(instruction) <=> Cardinality(Range(instruction)) = Len(instruction)
             /\ {ds[i][1] : i \in 1..Len(ds)} = Range(instruction)
             /\ \A i, j \in 1..Len(ds) : ds[i][1] = ds[j][1] => i = j
             /\ \A i \in 1..Len(ds) : ds[i][2] = output[LastIndex(instruction, ds[i][1])]

\* a repeated instruction has taken the later of two different outputs
C3_Witness ==
    /\ pc = "transform"
    /\ Len(instruction) = 3
    /\ instruction[1] = instruction[3]
    /\ output[1] # output[3]
    /\ Len(ds) = 2
    /\ ds[1] = <<instruction[1], output[3]>>

\* C4: in a run of main in which a CoT call failed, create_ds raises the
\* length error, no file is written and no call goes to the hub; in a run in
\* which every CoT call succeeded, create_ds does not raise.
C4_FailedItemStopsPipeline ==
    /\ CotFailed =>
          /\ written = <<>>
          /\ DOMAIN files = {}
          /\ NoHubOp
          /\ pc \in {"cot", "pair", "crashed"}
          /\ pc = "crashed" => err = [exc |-> "ValueError", at |-> "create_ds"]
    /\ ~CotFailed => err.at # "create_ds"

\* a run with a failed CoT call has ended in create_ds
C4_Witness ==
    /\ CotFailed
    /\ pc = "crashed"
    /\ err.at = "create_ds"
    /\ Len(instruction) = 3
    /\ Len(output) = 2

\* C5: push_to_hf raises iff file_path or repo_id is empty or absent, and then
\* makes no remote call; with both given it returns normally whatever fails.
C5_PushRaisesIffEmptyArgument ==
    pc # "push" =>
        /\ pc = "crashed" <=> (EmptyOrAbsent(json_path) \/ EmptyOrAbsent(repo_id))
        /\ pc = "crashed" => err = [exc |-> "ValueError", at |-> "push_to_hf"] /\ log = <<>>
        /\ pc # "crashed" => pc = "done" /\ err = NoError

\* the call returned normally although the repository could not be created
C5_Witness ==
    /\ pc = "done"
    /\ err = NoError
    /\ Len(log) = 1
    /\ log[1].op = "create_repo"
    /\ log[1].ret = Raised

\* C6: Snail(...) returns an object iff the key, the model id, the role and
\* the query are non-empty and the token budget is a positive integer;
\* otherwise it raises ValueError and the caller has no object.
C6_ConstructIffValid ==
    pc # "construct" =>
        LET given(x) == x.t = "str" /\ Len(x.v) >= 1
            valid == /\ given(args.google_api_key)
                     /\ given(args.model_id)
                     /\ given(args.role)
                     /\ given(args.user_query)
                     /\ args.max_output_tokens.t = "int"
                     /\ args.max_output_tokens.v >= 1
        IN  /\ snail.made <=> valid
            /\ snail.made => pc = "search" /\ err = NoError /\ snail.cfg = args
            /\ ~snail.made => pc = "crashed" /\ err = [exc |-> "ValueError", at |-> "Snail"]

\* a budget of zero, with everything else given, was refused
C6_Witness ==
    /\ pc = "crashed"
    /\ ~snail.made
    /\ args.max_output_tokens = PyInt(0)
    /\ \A f \in {"google_api_key", "model_id", "role", "user_query"} : ~EmptyOrAbsent(args[f])

\* The marker of the claim at the start of a line: digits, a period, spaces.
\* ok says whether the line has it; item is the rest of the line, trimmed.
ClaimedItem(line) ==
    LET d == SkipWhile(line, 1, Digits)
        w == SkipWhile(line, d + 1, {" "})
    IN  [ok |-> d > 1 /\ d <= Len(line) /\ line[d] = "." /\ w > d + 1,
         item |-> RStrip(SubSeq(line, w, Len(line)))]

RECURSIVE ClaimedItems(_)
ClaimedItems(lines) ==
    IF lines = <<>> THEN <<>>
    ELSE (IF ClaimedItem(Head(lines)).ok THEN <<ClaimedItem(Head(lines)).item>> ELSE <<>>)
         \o ClaimedItems(Tail(lines))

\* C7: extract_listings returns, in order, one item per marker that follows a
\* newline, each item the rest of the marker's own line, trimmed on the right.
C7_OneItemPerMarkerLine ==
    pc # "extract" =>
        instruction = ClaimedItems(Tail(Split(result_of_serching.v, NL)))

SameSecond(t, u) ==
    \A f \in {"year", "month", "day", "hour", "minute", "second"} : t[f] = u[f]

\* C8 as claimed: any two calls of transform_alpaca_format produce different
\* file names, and no call replaces the file of an earlier one.
C8_NamesAlwaysUnique ==
    \A i, j \in 1..Len(written) :
        i < j => /\ written[i].name # written[j].name
                 /\ files[written[i].name].by = i

\* C8 as amended: two calls produce the same file name iff their clock
\* readings agree in every field down to the second, and a file is replaced
\* exactly by the later calls whose reading is in the same second.
C8_NamesUniquePerSecond ==
    /\ \A i, j \in 1..Len(written) :
          written[i].name = written[j].name <=> SameSecond(written[i].t, written[j].t)
    /\ \A i \in 1..Len(written) :
          /\ written[i].name \in DOMAIN files
          /\ LET by == files[written[i].name].by
             IN  /\ by >= i
                 /\ SameSecond(written[by].t, written[i].t)
                 /\ \A j \in (by + 1)..Len(written) : ~SameSecond(written[j].t, written[i].t)

\* two calls in different seconds of the same minute left two files
C8_Witness ==
    /\ Len(written) = 2
    /\ ~SameSecond(written[1].t, written[2].t)
    /\ written[1].t.month = 1 /\ written[1].t.day = 11
    /\ written[2].t.month = 11 /\ written[2].t.day = 1
    /\ files[written[1].name].by = 1
    /\ files[written[2].name].by = 2

SearchFailed ==
    \E p \in 1..Len(log) : log[p].op = "generate_content(search)" /\ log[p].ret = Raised

\* C9: after a failed search searching() has returned None without raising,
\* and the extraction that follows does not raise: it gives the empty listing.
C9_FailedSearchTolerated ==
    SearchFailed =>
        /\ result_of_serching = PyNone
        /\ err.at \notin {"searching", "extract_listings"}
        /\ pc # "extract" => instruction = <<>>

\* C10: one push_to_hf call attempts create_repo, the card and the upload in
\* that order, each only after every earlier one succeeded; a repo_id that is
\* not owner/name stops the call after create_repo.
C10_StepsInOrderUntilFirstFailure ==
    pc = "done" =>
        LET order == <<"create_repo", "card.push_to_hub", "dataset.push_to_hub">>
            slashes == Cardinality({i \in 1..Len(repo_id.v) : repo_id.v[i] = "/"})
        IN  /\ Len(log) \in 1..3
            /\ \A i \in 1..Len(log) : log[i].op = order[i] /\ log[i].arg = repo_id.v
            /\ \A i \in 1..(Len(log) - 1) : log[i].ret # Raised
            /\ slashes # 1 => Len(log) = 1

\* the card could not be published and the upload was not attempted
C10_Witness ==
    /\ pc = "done"
    /\ Len(log) = 2
    /\ log[1].ret # Raised
    /\ log[2].op = "card.push_to_hub"
    /\ log[2].ret = Raised

====
